---- MODULE Spec2Model ----
(***************************************************************************)
(* Model of the timestamp workflow of src/main.rs: the parser chain        *)
(* (parse_datetime and its six sub-parsers), the representation expander   *)
(* (to_output and the item builders) and run_workflow.                     *)
(*                                                                         *)
(* The program computes on signed 64-bit integers.  They are kept exactly: *)
(* an integer is a sign and a magnitude, the magnitude a sequence of       *)
(* base-1000 limbs, least significant first, without leading zero limbs.   *)
(* Division by 1000, the step of the demotion loop, drops the lowest limb. *)
(***************************************************************************)
EXTENDS Integers, Sequences, FiniteSets, TLC

\* ------------------------------------------------------------------------
\* Exact integer arithmetic
\* ------------------------------------------------------------------------

\* The divisor of the demotion loop, and the base of the limbs.
Limb == 1000

MaxOf(a, b) == IF a >= b THEN a ELSE b

\* The magnitude without its leading (most significant) zero limbs.
RECURSIVE Norm(_)
Norm(m) ==
    IF m = <<>> THEN <<>>
    ELSE IF m[Len(m)] = 0 THEN Norm(SubSeq(m, 1, Len(m) - 1))
    ELSE m

LimbAt(m, i) == IF i <= Len(m) THEN m[i] ELSE 0

RECURSIVE CmpFrom(_, _, _)
CmpFrom(a, b, i) ==
    IF i = 0 THEN 0
    ELSE IF LimbAt(a, i) > LimbAt(b, i) THEN 1
    ELSE IF LimbAt(a, i) < LimbAt(b, i) THEN -1
    ELSE CmpFrom(a, b, i - 1)

\* -1, 0 or 1 as a < b, a = b, a > b.
CmpMag(a, b) == CmpFrom(a, b, MaxOf(Len(a), Len(b)))

RECURSIVE AddFrom(_, _, _, _)
AddFrom(a, b, i, carry) ==
    IF i > MaxOf(Len(a), Len(b))
    THEN (IF carry = 0 THEN <<>> ELSE <<carry>>)
    ELSE LET s == LimbAt(a, i) + LimbAt(b, i) + carry
         IN  <<s % Limb>> \o AddFrom(a, b, i + 1, s \div Limb)

AddMag(a, b) == Norm(AddFrom(a, b, 1, 0))

RECURSIVE SubFrom(_, _, _, _)
SubFrom(a, b, i, borrow) ==
    IF i > Len(a) THEN <<>>
    ELSE LET s == LimbAt(a, i) - LimbAt(b, i) - borrow
         IN  IF s < 0 THEN <<s + Limb>> \o SubFrom(a, b, i + 1, 1)
             ELSE <<s>> \o SubFrom(a, b, i + 1, 0)

\* a - b for a >= b.
SubMag(a, b) == Norm(SubFrom(a, b, 1, 0))

RECURSIVE NatToMag(_)
NatToMag(n) == IF n = 0 THEN <<>> ELSE <<n % Limb>> \o NatToMag(n \div Limb)

RECURSIVE MulFrom(_, _, _, _)
MulFrom(m, c, i, carry) ==
    IF i > Len(m) THEN NatToMag(carry)
    ELSE LET p == m[i] * c + carry
         IN  <<p % Limb>> \o MulFrom(m, c, i + 1, p \div Limb)

\* m * c for a small natural c (c * 1000 stays below 2^31).
MulSmall(m, c) == Norm(MulFrom(m, c, 1, 0))

RECURSIVE DivFrom(_, _, _, _)
DivFrom(m, c, i, r) ==
    IF i = 0 THEN [q |-> <<>>, r |-> r]
    ELSE LET cur  == r * Limb + m[i]
             rest == DivFrom(m, c, i - 1, cur % c)
         IN  [q |-> rest.q \o <<cur \div c>>, r |-> rest.r]

\* Quotient and remainder of m by a small positive c.
DivSmall(m, c) == LET d == DivFrom(m, c, Len(m), 0) IN [q |-> Norm(d.q), r |-> d.r]

RECURSIVE Zeros(_)
Zeros(k) == IF k <= 0 THEN <<>> ELSE <<0>> \o Zeros(k - 1)

\* m * 1000^k, m \div 1000^k and m % 1000^k.
ShiftUp(m, k) == IF m = <<>> THEN <<>> ELSE Zeros(k) \o m
ShiftDown(m, k) == IF k >= Len(m) THEN <<>> ELSE SubSeq(m, k + 1, Len(m))
LowLimbs(m, k) == Norm(SubSeq(m, 1, IF k <= Len(m) THEN k ELSE Len(m)))

RECURSIVE MagToNat(_)
MagToNat(m) == IF m = <<>> THEN 0 ELSE m[1] + Limb * MagToNat(Tail(m))

\* Signed integers: zero is never negative.
MkInt(neg, mag) == LET n == Norm(mag) IN [neg |-> neg /\ n # <<>>, mag |-> n]
IntZero == MkInt(FALSE, <<>>)
FromInt(n) == IF n < 0 THEN MkInt(TRUE, NatToMag(-n)) ELSE MkInt(FALSE, NatToMag(n))
ToInt(x) == IF x.neg THEN -MagToNat(x.mag) ELSE MagToNat(x.mag)
NegInt(x) == MkInt(~x.neg, x.mag)

AddInt(x, y) ==
    IF x.neg = y.neg THEN MkInt(x.neg, AddMag(x.mag, y.mag))
    ELSE IF CmpMag(x.mag, y.mag) >= 0 THEN MkInt(x.neg, SubMag(x.mag, y.mag))
    ELSE MkInt(y.neg, SubMag(y.mag, x.mag))

SubInt(x, y) == AddInt(x, NegInt(y))

CmpInt(x, y) ==
    IF x.neg /\ ~y.neg THEN -1
    ELSE IF ~x.neg /\ y.neg THEN 1
    ELSE IF x.neg THEN CmpMag(y.mag, x.mag)
    ELSE CmpMag(x.mag, y.mag)

LeInt(x, y) == CmpInt(x, y) <= 0
LtInt(x, y) == CmpInt(x, y) < 0

\* Rust's / and % by 1000^k: the quotient truncates toward zero, the
\* remainder takes the sign of the dividend.
TruncDivPow(x, k) == MkInt(x.neg, ShiftDown(x.mag, k))
TruncRemPow(x, k) == MkInt(x.neg, LowLimbs(x.mag, k))
\* Division by 1000^k rounding toward minus infinity.
FloorDivPow(x, k) ==
    IF x.neg /\ LowLimbs(x.mag, k) # <<>>
    THEN MkInt(TRUE, AddMag(ShiftDown(x.mag, k), <<1>>))
    ELSE TruncDivPow(x, k)
MulPow(x, k) == MkInt(x.neg, ShiftUp(x.mag, k))

\* The bounds of the machine integers, most significant limb last.
I64Max == MkInt(FALSE, <<807, 775, 854, 36, 372, 223, 9>>)
I64Min == MkInt(TRUE, <<808, 775, 854, 36, 372, 223, 9>>)
U32Max == MkInt(FALSE, <<295, 967, 294, 4>>)
Two64 == MkInt(FALSE, <<616, 551, 709, 73, 744, 446, 18>>)

FitsI64(x) == LeInt(I64Min, x) /\ LeInt(x, I64Max)

\* The value a 64-bit two's complement register holds after an overflow.
RECURSIVE Wrap64(_)
Wrap64(x) ==
    IF LtInt(I64Max, x) THEN Wrap64(SubInt(x, Two64))
    ELSE IF LtInt(x, I64Min) THEN Wrap64(AddInt(x, Two64))
    ELSE x

\* ------------------------------------------------------------------------
\* Calendar arithmetic of the date-time library (proleptic Gregorian)
\* ------------------------------------------------------------------------

SecsPerDay == 24 * 3600

\* Days since 1970-01-01 of the civil date y-m-d.
DaysFromCivil(y, m, d) ==
    LET yy  == IF m <= 2 THEN y - 1 ELSE y
        era == yy \div 400
        yoe == yy - era * 400
        mp  == IF m > 2 THEN m - 3 ELSE m + 9
        doy == (153 * mp + 2) \div 5 + d - 1
        doe == yoe * 365 + yoe \div 4 - yoe \div 100 + doy
    IN  era * 146097 + doe - 719468

\* The civil date <<y, m, d>> of a day count since 1970-01-01.
CivilFromDays(z) ==
    LET zz  == z + 719468
        era == zz \div 146097
        doe == zz - era * 146097
        yoe == (doe - doe \div 1460 + doe \div 36524 - doe \div 146096) \div 365
        doy == doe - (365 * yoe + yoe \div 4 - yoe \div 100)
        mp  == (5 * doy + 2) \div 153
        d   == doy - (153 * mp + 2) \div 5 + 1
        m   == IF mp < 10 THEN mp + 3 ELSE mp - 9
        y   == yoe + era * 400
    IN  <<IF m <= 2 THEN y + 1 ELSE y, m, d>>

\* Whole days (rounded toward minus infinity) and second of the day of a
\* count of seconds since the epoch.
DaysAndSecond(secs) ==
    LET d == DivSmall(secs.mag, SecsPerDay)
    IN  IF ~secs.neg THEN [days |-> MagToNat(d.q), sod |-> d.r]
        ELSE IF d.r = 0 THEN [days |-> -MagToNat(d.q), sod |-> 0]
        ELSE [days |-> -MagToNat(d.q) - 1, sod |-> SecsPerDay - d.r]

\* The civil fields <<y, m, d, H, M, S>> of a count of seconds.
CivilOfSecs(secs) ==
    LET ds == DaysAndSecond(secs)
        c  == CivilFromDays(ds.days)
    IN  <<c[1], c[2], c[3], ds.sod \div 3600, (ds.sod \div 60) % 60, ds.sod % 60>>

\* Seconds since the epoch of civil fields read as UTC.
SecsOfCivil(y, m, d, hh, mi, ss) ==
    LET days == DaysFromCivil(y, m, d)
        sod  == hh * 3600 + mi * 60 + ss
    IN  AddInt(MkInt(days < 0, MulSmall(NatToMag(IF days < 0 THEN -days ELSE days), SecsPerDay)),
               FromInt(sod))

\* A NaiveDateTime: whole seconds since the epoch, rounded toward minus
\* infinity, and a nanosecond part in 0..999999999.
Moment(secs, nanos) == [secs |-> secs, nanos |-> nanos]
Epoch == Moment(IntZero, 0)

\* The range of NaiveDateTime: years -262144 to 262143.
NaiveMinSecs == MkInt(TRUE, <<200, 851, 632, 334, 8>>)
NaiveMaxSecs == MkInt(FALSE, <<799, 412, 298, 210, 8>>)
NanosPerSec == 1000 * 1000 * 1000

\* NaiveDateTime::from_timestamp_opt: TRUE when the pair denotes a moment.
FromTimestampInRange(secs, nsec) ==
    /\ LeInt(NaiveMinSecs, secs)
    /\ LeInt(secs, NaiveMaxSecs)
    /\ \/ nsec < NanosPerSec
       \/ nsec < 2 * NanosPerSec /\ DaysAndSecond(secs).sod % 60 = 59

\* Variant of timestamp_millis that truncates the nanosecond count toward zero.
TimestampMillisTrunc(m) ==
    TruncDivPow(AddInt(MulPow(m.secs, 3), FromInt(m.nanos)), 2)

\* NaiveDateTime::timestamp, timestamp_millis (i64 arithmetic that cannot
\* overflow within the range of NaiveDateTime).
Timestamp(m) == m.secs
TimestampMillis(m) == AddInt(MulPow(m.secs, 1), FromInt(m.nanos \div (1000 * 1000)))
\* The exact count of nanoseconds since the epoch, before it is stored in
\* an i64.
ExactNanos(m) == AddInt(MulPow(m.secs, 3), FromInt(m.nanos))

\* ------------------------------------------------------------------------
\* Input strings
\* ------------------------------------------------------------------------
\* A string of an optional sign and decimal digits is kept as its sign, its
\* count of leading zeros and the magnitude of its remaining digits (so "0"
\* is one leading zero and an empty magnitude, "-" is a sign alone).  A
\* string in a calendar format is kept as its literal and the fields the
\* date-time library reads from it.

IntText(sign, zeros, mag) ==
    [fmt |-> "int", lit |-> "", sign |-> sign, zeros |-> zeros, mag |-> mag, cal |-> <<>>]
CalText(fmt, lit, cal) ==
    [fmt |-> fmt, lit |-> lit, sign |-> "", zeros |-> 0, mag |-> <<>>, cal |-> cal]

EmptyText == CalText("empty", "", <<>>)
\* Option::None of the clipboard.
NoClip == CalText("none", "", <<>>)

DigitCount(mag) ==
    IF mag = <<>> THEN 0
    ELSE 3 * (Len(mag) - 1)
         + (IF mag[Len(mag)] < 10 THEN 1 ELSE IF mag[Len(mag)] < 100 THEN 2 ELSE 3)

\* str::len: the length in bytes (every modelled string is ASCII).
TextLen(t) ==
    IF t.fmt = "int"
    THEN (IF t.sign = "" THEN 0 ELSE 1) + t.zeros + DigitCount(t.mag)
    ELSE Len(t.lit)

IsEmpty(t) == TextLen(t) = 0

\* str::parse::<i64>: an optional sign, then at least one digit and only
\* digits, the value within the range of i64.
ParseI64(t) ==
    LET v == MkInt(t.sign = "-", t.mag)
    IN  IF t.fmt # "int" \/ t.zeros + DigitCount(t.mag) = 0 \/ ~FitsI64(v)
        THEN [ok |-> FALSE, val |-> IntZero]
        ELSE [ok |-> TRUE, val |-> v]

\* ------------------------------------------------------------------------
\* The parser chain
\* ------------------------------------------------------------------------

\* The outcome of a parser: "ok" with a moment, "err" with a diagnostic, or
\* "abort" when the thread panicked inside it.
Ok(m) == [status |-> "ok", moment |-> m, diag |-> ""]
Err(d) == [status |-> "err", moment |-> Epoch, diag |-> d]
Abort(d) == [status |-> "abort", moment |-> Epoch, diag |-> d]

\* The longest string parse_timestamp hands to the integer parser.
MaxTimestampLen == 22

\* Variant of the loop with the bound itself demoted (>= for >).
RECURSIVE DemoteLoopInclusive(_, _)
DemoteLoopInclusive(seconds, exp) ==
    IF LeInt(U32Max, seconds)
    THEN DemoteLoopInclusive(TruncDivPow(seconds, 1), exp + 3)
    ELSE [seconds |-> seconds, exp |-> exp]

\* while seconds > u32::MAX { seconds /= 1000; exp += 3 }
RECURSIVE DemoteLoop(_, _)
DemoteLoop(seconds, exp) ==
    IF LtInt(U32Max, seconds)
    THEN DemoteLoop(TruncDivPow(seconds, 1), exp + 3)
    ELSE [seconds |-> seconds, exp |-> exp]

\* (ts % 10_i64.pow(exp)) * 10_i64.pow(9 - exp), exp a u32.  With exp > 9
\* the subtraction overflows: a build with overflow checks panics; without
\* them 9 - exp wraps to a number above 2^32 - 4 and the wrapping power
\* 10^(9 - exp) is 0 modulo 2^64.
ScaleNanos(ts, exp, build) ==
    LET rem == TruncRemPow(ts, exp \div 3)
    IN  IF exp <= 9 THEN [abort |-> FALSE, nanos |-> MulPow(rem, (9 - exp) \div 3)]
        ELSE IF build = "checked" THEN [abort |-> TRUE, nanos |-> IntZero]
        ELSE [abort |-> FALSE, nanos |-> IntZero]

\* The locals of parse_timestamp and, in res, what it returns.
TsRecord(res, tried, ts, seconds, exp, nanos) ==
    [res |-> res, triedInt |-> tried, ts |-> ts, seconds |-> seconds,
     exp |-> exp, nanos |-> nanos]

\* Lines 266-270: NaiveDateTime::from_timestamp_opt(seconds, nanos as u32).
TsBuild(ts, lp, sc) ==
    IF sc.abort
    THEN TsRecord(Abort("subtract with overflow"), TRUE, ts, lp.seconds, lp.exp, IntZero)
    ELSE IF FromTimestampInRange(lp.seconds, ToInt(sc.nanos))
    THEN TsRecord(Ok(Moment(lp.seconds, ToInt(sc.nanos))), TRUE, ts,
                  lp.seconds, lp.exp, sc.nanos)
    ELSE TsRecord(Err("NotATimestamp"), TRUE, ts, lp.seconds, lp.exp, sc.nanos)

\* Lines 251-259: the loop, then the nanosecond part.
TsDemote(ts, lp, build) == TsBuild(ts, lp, ScaleNanos(ts, lp.exp, build))

\* Line 249: let ts = s.parse::<i64>()?
TsParsed(p, build) ==
    IF ~p.ok
    THEN TsRecord(Err("ParseInt"), TRUE, IntZero, IntZero, 0, IntZero)
    ELSE TsDemote(p.val, DemoteLoop(p.val, 0), build)

\* Variant without the length check of lines 242-247.
parse_timestamp_unbounded(s, build) == TsParsed(ParseI64(s), build)

parse_timestamp(s, build) ==
    IF TextLen(s) > MaxTimestampLen
    THEN TsRecord(Err("TooLong"), FALSE, IntZero, IntZero, 0, IntZero)
    ELSE TsParsed(ParseI64(s), build)

\* s.parse::<DateTime<Utc>>(): date, time, optional fraction and an offset;
\* the offset is subtracted.
parse_iso8601(s) ==
    IF s.fmt = "iso"
    THEN Ok(Moment(SubInt(SecsOfCivil(s.cal[1], s.cal[2], s.cal[3], s.cal[4], s.cal[5], s.cal[6]),
                          FromInt(s.cal[8])),
                   s.cal[7]))
    ELSE Err("Iso8601")

parse_rfc2822(s) ==
    IF s.fmt = "rfc"
    THEN Ok(Moment(SubInt(SecsOfCivil(s.cal[1], s.cal[2], s.cal[3], s.cal[4], s.cal[5], s.cal[6]),
                          FromInt(s.cal[8])),
                   0))
    ELSE Err("Rfc2822")

\* "%Y-%m-%d %H:%M:%S" read in the local time zone.
parse_date_and_time(s, offset) ==
    IF s.fmt = "dt"
    THEN Ok(Moment(SubInt(SecsOfCivil(s.cal[1], s.cal[2], s.cal[3], s.cal[4], s.cal[5], s.cal[6]),
                          FromInt(offset)),
                   0))
    ELSE Err("DateAndTime")

\* "%Y-%m-%d": Date<Local>::naive_utc is the date as written, and and_hms
\* puts midnight on it without applying the offset.
parse_date(s) ==
    IF s.fmt = "date"
    THEN Ok(Moment(SecsOfCivil(s.cal[1], s.cal[2], s.cal[3], 0, 0, 0), 0))
    ELSE Err("Date")

\* "%H:%M:%S" on Local::today(), the local date of the clock when the
\* parser runs.
parse_time(s, offset, now) ==
    IF s.fmt = "time"
    THEN LET today == CivilOfSecs(AddInt(now.secs, FromInt(offset)))
         IN  Ok(Moment(SubInt(SecsOfCivil(today[1], today[2], today[3],
                                          s.cal[1], s.cal[2], s.cal[3]),
                              FromInt(offset)),
                       0))
    ELSE Err("Time")

\* Variant that keeps the receiver's error when both fail.
OrElseFirstError(a, b) ==
    IF a.status = "ok" THEN a ELSE IF b.status = "ok" THEN b ELSE a

\* Result::or: the receiver when it is Ok, else the argument.
OrElse(a, b) == IF a.status = "ok" THEN a ELSE b

RECURSIVE FoldOr(_, _)
FoldOr(rs, i) == IF i = 1 THEN rs[1] ELSE OrElse(FoldOr(rs, i - 1), rs[i])

\* What the chain returns from the outcomes of the sub-parsers, given in
\* the order the chain evaluates them.  Result::or takes its argument by
\* value, so all six run before the first or; a panic in one ends the call.
ChainResult(rs) ==
    IF \E i \in 1..Len(rs) : rs[i].status = "abort"
    THEN Abort("panic")
    ELSE FoldOr(rs, Len(rs))

\* One call of parse_datetime: its string, the outcomes of the sub-parsers,
\* the locals of parse_timestamp and, in res, what the call returns.
ChainRecord(s, tsrec, rs, res) == [text |-> s, subs |-> rs, res |-> res, ts |-> tsrec]

NoTs == TsRecord(Err("none"), FALSE, IntZero, IntZero, 0, IntZero)

ChainFold(s, tsrec, rs) == ChainRecord(s, tsrec, rs, ChainResult(rs))

ChainFrom(s, tsrec, offset, now) ==
    ChainFold(s, tsrec,
              << tsrec.res, parse_iso8601(s), parse_rfc2822(s),
                 parse_date_and_time(s, offset), parse_date(s),
                 parse_time(s, offset, now) >>)

parse_datetime(s, offset, now, build) ==
    IF IsEmpty(s) THEN ChainRecord(s, NoTs, <<>>, Err("Empty"))
    ELSE ChainFrom(s, parse_timestamp(s, build), offset, now)

\* ------------------------------------------------------------------------
\* The representation expander
\* ------------------------------------------------------------------------

\* An Item: its role, the description its subtitle is built from, and its
\* title (equal to its arg): an integer for the epoch renderings and the
\* relative duration, civil fields for the calendar renderings.
NumItem(role, desc, n) == [role |-> role, desc |-> desc, num |-> n, civ |-> <<>>]
CivItem(role, desc, c) == [role |-> role, desc |-> desc, num |-> IntZero, civ |-> c]

Items(its) == [status |-> "ok", items |-> its, diag |-> ""]
ItemsAbort(d) == [status |-> "abort", items |-> <<>>, diag |-> d]

\* "%Y-%m-%d %H:%M:%S" of the moment in UTC: the sub-second part is not shown.
to_utc_item(m, desc) == CivItem("utc", desc, CivilOfSecs(m.secs))

\* The same in the local zone; the subtitle names the offset.
to_localtime_item(m, desc, offset) ==
    CivItem("local", desc, CivilOfSecs(AddInt(m.secs, FromInt(offset))) \o <<offset>>)

\* NaiveDateTime::timestamp_nanos: timestamp() * 1_000_000_000 + subsec, in
\* i64.  On overflow a build with overflow checks panics and one without
\* keeps the wrapped value.
TimestampNanos(m, build) ==
    LET exact == ExactNanos(m)
    IN  IF FitsI64(MulPow(m.secs, 3)) /\ FitsI64(exact)
        THEN [abort |-> FALSE, val |-> exact]
        ELSE IF build = "checked" THEN [abort |-> TRUE, val |-> IntZero]
        ELSE [abort |-> FALSE, val |-> Wrap64(exact)]

\* Lines 89-115, ns being what timestamp_nanos returned.
TimestampItems(m, desc, ns) ==
    LET ts_nanos   == ns.val
        ts_micros  == TruncDivPow(ns.val, 1)
        ts_millis  == TimestampMillis(m)
        ts_seconds == Timestamp(m)
    IN  IF ns.abort THEN ItemsAbort("timestamp_nanos overflow")
        ELSE Items(<< NumItem("seconds", desc, ts_seconds),
                      NumItem("milliseconds", desc, ts_millis),
                      NumItem("microseconds", desc, ts_micros),
                      NumItem("nanoseconds", desc, ts_nanos) >>)

to_timestamp_items(m, desc, build) == TimestampItems(m, desc, TimestampNanos(m, build))

\* signed_duration_since(Utc::now()), num_nanoseconds().unwrap() (None when
\* the difference does not fit i64 nanoseconds), then the magnitude.
RelativeItem(nanos) ==
    IF ~FitsI64(nanos) THEN ItemsAbort("num_nanoseconds is None")
    ELSE Items(<< NumItem("relative", "Relative time", MkInt(FALSE, nanos.mag)) >>)

to_relative_item(m, now) == RelativeItem(SubInt(ExactNanos(m), ExactNanos(now)))

SourceDesc(source) == IF source = "clip" THEN "timestamp from clipboard" ELSE "timestamp"

\* The first part of to_output for Clipboard(query) and Argument(query):
\* the match on query.parse::<i64>().
CivilThenRelative(m, desc, offset, rel) ==
    IF rel.status = "abort" THEN rel
    ELSE Items(<< to_localtime_item(m, desc, offset), to_utc_item(m, desc) >> \o rel.items)

to_output_prefix(m, source, text, offset, now, build) ==
    IF ParseI64(text).ok
    THEN CivilThenRelative(m, SourceDesc(source), offset, to_relative_item(m, now))
    ELSE to_timestamp_items(m, "Time since epoch", build)

\* to_output(Input::None) of the moment read from the clock.
EpochThenCivil(m, offset, ts) ==
    IF ts.status = "abort" THEN ts
    ELSE Items(ts.items \o << to_localtime_item(m, "Current time", offset),
                              to_utc_item(m, "Current time") >>)

to_output_none(m, offset, build) ==
    EpochThenCivil(m, offset, to_timestamp_items(m, "Current time", build))

\* The single entry run_workflow writes itself before it returns the error.
ErrorItem == [role |-> "error", desc |-> "Failed to parse", num |-> IntZero, civ |-> <<>>]

\* ------------------------------------------------------------------------
\* Inputs and environment of one invocation
\* ------------------------------------------------------------------------

\* Bounds of the model.
MaxShift == 3
MaxZeros == 4
MaxTicks == 2

\* Magnitudes around the thresholds of the demotion loop: 1, 10, 4294967
\* (the largest t with 1000 * t <= u32::MAX), 4294968, 1662796800,
\* u32::MAX and u32::MAX + 1.
BaseMags ==
    { <<1>>, <<10>>, <<967, 294, 4>>, <<968, 294, 4>>, <<800, 796, 662, 1>>,
      <<295, 967, 294, 4>>, <<296, 967, 294, 4>> }

\* The values of the limbs appended below a base magnitude.
FillLimbs == {0, 7, 999}

RECURSIVE Fill(_, _)
Fill(l, j) == IF j = 0 THEN <<>> ELSE <<l>> \o Fill(l, j - 1)

\* base * 1000^j + the j limbs l l ... l.
ShiftedMags == { Fill(l, j) \o b : b \in BaseMags, j \in 0..MaxShift, l \in FillLimbs }

\* i64::MAX, i64::MAX + 1 (a valid magnitude only after a minus sign) and
\* 10^19, the least number of 20 digits.
EdgeMags ==
    { <<807, 775, 854, 36, 372, 223, 9>>, <<808, 775, 854, 36, 372, 223, 9>>,
      <<0, 0, 0, 0, 0, 0, 10>> }

\* Magnitudes also given with a sign, and with leading zeros.
SignedMags == EdgeMags \cup { <<>>, <<1>>, <<800, 796, 662, 1>>, <<0, 0, 0, 10>>,
                              <<999, 999, 999, 295, 967, 294, 4>> }
PaddedMags == { <<>>, <<5>>, <<807, 775, 854, 36, 372, 223, 9>>,
                <<999, 999, 999, 295, 967, 294, 4>> }

IntTexts ==
    { IntText("", 0, m) : m \in ShiftedMags \cup EdgeMags }
    \cup { IntText(sg, 0, m) : sg \in {"+", "-"}, m \in SignedMags }
    \cup { IntText("", z, m) : z \in 1..MaxZeros, m \in PaddedMags }

\* frac is the fraction in nanoseconds, off the offset in seconds east.
Iso(lit, y, mo, d, hh, mi, ss, frac, off) ==
    CalText("iso", lit, <<y, mo, d, hh, mi, ss, frac, off>>)

IsoEpoch == Iso("1970-01-01T00:00:00Z", 1970, 1, 1, 0, 0, 0, 0, 0)
IsoHalfBefore == Iso("1969-12-31T23:59:59.5Z", 1969, 12, 31, 23, 59, 59, 500000000, 0)

IsoTexts ==
    { Iso("2022-09-10T10:00:00Z", 2022, 9, 10, 10, 0, 0, 0, 0),
      Iso("2022-09-10T10:00:00 +00:00", 2022, 9, 10, 10, 0, 0, 0, 0),
      Iso("2022-09-10T10:00:00 +02:00", 2022, 9, 10, 10, 0, 0, 0, 7200),
      Iso("2022-09-10T10:00:00.123456789Z", 2022, 9, 10, 10, 0, 0, 123456789, 0),
      IsoEpoch,
      IsoHalfBefore,
      Iso("1969-12-31T23:59:59.4995Z", 1969, 12, 31, 23, 59, 59, 499500000, 0),
      Iso("1969-12-31T23:59:59.9999995Z", 1969, 12, 31, 23, 59, 59, 999999500, 0),
      Iso("1500-01-01T00:00:00Z", 1500, 1, 1, 0, 0, 0, 0, 0),
      Iso("3000-01-01T00:00:00Z", 3000, 1, 1, 0, 0, 0, 0, 0) }

TimeTen == CalText("time", "10:00:00", <<10, 0, 0>>)
JunkShort == CalText("junk", "next Tuesday", <<>>)
DateOld == CalText("date", "1500-01-01", <<1500, 1, 1>>)

OtherTexts ==
    { CalText("rfc", "Sat, 10 Sep 2022 10:00:00 +0200", <<2022, 9, 10, 10, 0, 0, 0, 7200>>),
      CalText("dt", "2022-09-10 10:00:00", <<2022, 9, 10, 10, 0, 0>>),
      CalText("date", "2022-09-10", <<2022, 9, 10>>),
      DateOld,
      TimeTen,
      CalText("time", "23:30:00", <<23, 30, 0>>),
      JunkShort,
      CalText("junk", "not a timestamp and not a date", <<>>) }

\* The trimmed argument: any string, the empty one included.
Queries == IntTexts \cup IsoTexts \cup OtherTexts \cup {EmptyText}

\* The clipboard: absent, or any string.
Clipboards ==
    { NoClip, EmptyText, IsoEpoch, IsoHalfBefore, DateOld, TimeTen, JunkShort,
      IntText("", 0, <<800, 796, 662, 1>>),
      IntText("-", 0, <<0, 0, 0, 10>>),
      IntText("", 0, <<807, 775, 854, 36, 372, 223, 9>>) }
\* The clipboards tried beside a non-empty argument.
ClipboardsBesideQuery == { NoClip, IsoEpoch, IntText("", 0, <<800, 796, 662, 1>>) }

\* "checked": integer overflow panics (the debug profile); "wrapping": it
\* wraps (the release profile).
Builds == {"checked", "wrapping"}

\* The local zone's offset from UTC in seconds (fixed for the run).
Offsets == {2 * 3600, -(5 * 3600)}

\* The clock: 2022-09-10T21:59:59.9Z at the first tick, a fifth of a second
\* later at each next one (local midnight passes at offset +02:00).
ClockStartSecs == MkInt(FALSE, <<199, 847, 662, 1>>)
ClockStartNanos == 900 * 1000 * 1000
TickNanos == 200 * 1000 * 1000

Now(tick) ==
    LET n == ClockStartNanos + tick * TickNanos
    IN  Moment(AddInt(ClockStartSecs, FromInt(n \div NanosPerSec)), n % NanosPerSec)

\* ------------------------------------------------------------------------
\* run_workflow as a state machine
\* ------------------------------------------------------------------------

VARIABLES
    query,      \* the argument, trimmed
    clipboard,  \* the clipboard's string, or NoClip
    build,      \* the build profile
    offset,     \* the local offset
    clock,      \* the tick the wall clock stands at
    pc,         \* the position in run_workflow
    source,     \* the Input being expanded: "none", "clip" or "arg"
    chain,      \* the last call of parse_datetime: its string and outcomes
    items,      \* the Vec<Item> run_workflow builds
    emitted,    \* entries run_workflow writes itself (the error entry)
    outcome,    \* "running", then "ok", "err" or "abort" (a panic)
    reads,      \* the clock readings taken so far: <<site, tick>>
    clipParses  \* the number of parse_datetime calls on the clipboard

vars == <<query, clipboard, build, offset, clock, pc, source, chain, items,
          emitted, outcome, reads, clipParses>>

NoChain == ChainRecord(NoClip, NoTs, <<>>, Err("none"))

\* parse_time reads the clock (Local::today) when its format matches and
\* no earlier sub-parser panicked.
ParseReads(s, res) ==
    IF s.fmt = "time" /\ res.status # "abort" THEN << <<"today", clock>> >> ELSE <<>>

\* Variant that parses the clipboard whatever the argument is.
UsesClipboardAlways(q, c) == c # NoClip

\* if query.is_empty() { if let Some(content) = clipboard_content { ... } }
UsesClipboard(q, c) == IsEmpty(q) /\ c # NoClip

Init ==
    /\ \E p \in ((Queries \ {EmptyText}) \X ClipboardsBesideQuery)
                 \cup ({EmptyText} \X Clipboards) :
          query = p[1] /\ clipboard = p[2]
    /\ build \in Builds
    /\ offset \in Offsets
    /\ clock = 0
    /\ pc = "start"
    /\ source = "none"
    /\ chain = NoChain
    /\ items = <<>>
    /\ emitted = <<>>
    /\ outcome = "running"
    /\ reads = <<>>
    /\ clipParses = 0

Panic ==
    /\ pc' = "done"
    /\ outcome' = "abort"

\* Lines 189-194, c being the call parse_datetime(content): a failure is
\* only logged.
ClipboardParsed(c) ==
    /\ chain' = c
    /\ clipParses' = clipParses + 1
    /\ reads' = reads \o ParseReads(clipboard, c.res)
    /\ IF c.res.status = "abort"
       THEN Panic /\ UNCHANGED source
       ELSE /\ outcome' = outcome
            /\ IF c.res.status = "ok"
               THEN pc' = "prefix" /\ source' = "clip"
               ELSE pc' = "query" /\ UNCHANGED source

\* Lines 187-196.
ClipboardParse ==
    /\ pc = "start"
    /\ UsesClipboard(query, clipboard)
    /\ ClipboardParsed(parse_datetime(clipboard, offset, Now(clock), build))
    /\ UNCHANGED <<query, clipboard, build, offset, clock, items, emitted>>

ClipboardSkip ==
    /\ pc = "start"
    /\ ~UsesClipboard(query, clipboard)
    /\ pc' = "query"
    /\ UNCHANGED <<query, clipboard, build, offset, clock, source, chain, items,
                   emitted, outcome, reads, clipParses>>

\* Lines 199-217, c being the call parse_datetime(&query): a failure
\* writes the error entry and is returned.
QueryParsed(c) ==
    /\ chain' = c
    /\ reads' = reads \o ParseReads(query, c.res)
    /\ IF c.res.status = "abort"
       THEN Panic /\ UNCHANGED <<source, emitted>>
       ELSE IF c.res.status = "ok"
       THEN /\ pc' = "prefix"
            /\ source' = "arg"
            /\ UNCHANGED <<outcome, emitted>>
       ELSE /\ emitted' = emitted \o <<ErrorItem>>
            /\ outcome' = "err"
            /\ pc' = "done"
            /\ UNCHANGED source

\* Lines 198-218.
QueryParse ==
    /\ pc = "query"
    /\ ~IsEmpty(query)
    /\ QueryParsed(parse_datetime(query, offset, Now(clock), build))
    /\ UNCHANGED <<query, clipboard, build, offset, clock, items, clipParses>>

QuerySkip ==
    /\ pc = "query"
    /\ IsEmpty(query)
    /\ pc' = "final"
    /\ UNCHANGED <<query, clipboard, build, offset, clock, source, chain, items,
                   emitted, outcome, reads, clipParses>>

\* The entries out are appended, or the panic in out ends the run.
Extend(out, next) ==
    IF out.status = "abort"
    THEN Panic /\ UNCHANGED items
    ELSE /\ items' = items \o out.items
         /\ pc' = next
         /\ UNCHANGED outcome

\* to_output, first part: the entries of the parsed moment.  The relative
\* entry reads the clock.
ExpandPrefix ==
    /\ pc = "prefix"
    /\ reads' = IF ParseI64(chain.text).ok
                THEN reads \o << <<"relative", clock>> >> ELSE reads
    /\ Extend(to_output_prefix(chain.res.moment, source, chain.text, offset,
                               Now(clock), build), "block")
    /\ UNCHANGED <<query, clipboard, build, offset, clock, source, chain, emitted,
                   clipParses>>

\* Variant that appends the block of the first reading of the clock taken
\* in the run (one snapshot for the whole invocation).
AppendBlockSnapshot ==
    /\ pc = "block"
    /\ reads' = reads \o << <<"block", clock>> >>
    /\ Extend(to_output_none(Now(IF reads = <<>> THEN clock ELSE reads[1][2]),
                             offset, build),
              IF source = "clip" THEN "query" ELSE "final")
    /\ UNCHANGED <<query, clipboard, build, offset, clock, source, chain, emitted,
                   clipParses>>

\* to_output, second part: items.extend(Utc::now().naive_utc().to_output(None)).
AppendBlock ==
    /\ pc = "block"
    /\ reads' = reads \o << <<"block", clock>> >>
    /\ Extend(to_output_none(Now(clock), offset, build),
              IF source = "clip" THEN "query" ELSE "final")
    /\ UNCHANGED <<query, clipboard, build, offset, clock, source, chain, emitted,
                   clipParses>>

\* Lines 220-224: with nothing collected the current time alone is shown.
Return(out) ==
    IF out.status = "abort"
    THEN Panic /\ UNCHANGED items
    ELSE /\ items' = items \o out.items
         /\ outcome' = "ok"
         /\ pc' = "done"

Finish ==
    /\ pc = "final"
    /\ IF items # <<>>
       THEN Return(Items(<<>>)) /\ UNCHANGED reads
       ELSE /\ reads' = reads \o << <<"block", clock>> >>
            /\ Return(to_output_none(Now(clock), offset, build))
    /\ UNCHANGED <<query, clipboard, build, offset, clock, source, chain, emitted,
                   clipParses>>

\* The wall clock advances while the invocation runs.
Tick ==
    /\ pc # "done"
    /\ clock < MaxTicks
    /\ clock' = clock + 1
    /\ UNCHANGED <<query, clipboard, build, offset, pc, source, chain, items,
                   emitted, outcome, reads, clipParses>>

Next ==
    \/ ClipboardParse
    \/ ClipboardSkip
    \/ QueryParse
    \/ QuerySkip
    \/ ExpandPrefix
    \/ AppendBlock
    \/ Finish
    \/ Tick

Spec == Init /\ [][Next]_vars

\* ------------------------------------------------------------------------
\* Properties
\* ------------------------------------------------------------------------

\* A call of parse_datetime on a non-empty string has been made.
Chained == chain.text # NoClip /\ ~IsEmpty(chain.text)

\* The string of the last call parses as an i64.
ChainNumeric == Chained /\ ParseI64(chain.text).ok

FormatOrder == <<"int", "iso", "rfc", "dt", "date", "time">>
DiagOrder ==
    << {"TooLong", "ParseInt", "NotATimestamp"}, {"Iso8601"}, {"Rfc2822"},
       {"DateAndTime"}, {"Date"}, {"Time"} >>

\* C1: for every non-empty string, parse_datetime returns the result of the
\* first sub-parser that succeeds, the sub-parsers being tried in the order
\* epoch-magnitude, ISO-8601, RFC-2822, date+time, date-only, time-only;
\* when all six fail it fails with the diagnostic of the time-only parser
\* and every earlier diagnostic is discarded.
C1_FirstSuccessElseLastDiagnostic ==
    Chained =>
       LET rs == chain.subs IN
       /\ Len(rs) = 6
       /\ \A i \in 1..6 :
             /\ rs[i].status = "ok" => chain.text.fmt = FormatOrder[i]
             /\ rs[i].status = "err" => rs[i].diag \in DiagOrder[i]
       /\ \A i \in 1..6 :
             (rs[i].status = "ok" /\ \A j \in 1..(i - 1) : rs[j].status # "ok")
                => chain.res = rs[i]
       /\ (\A i \in 1..6 : rs[i].status = "err")
             => /\ chain.res.status = "err"
                /\ chain.res.diag = rs[6].diag
                /\ chain.res.diag = "Time"

\* All six sub-parsers failed on an integer that is out of the range of
\* NaiveDateTime: the diagnostic "Not a timestamp" was discarded.
C1_Witness ==
    /\ Chained
    /\ \A i \in 1..6 : chain.subs[i].status = "err"
    /\ chain.subs[1].diag = "NotATimestamp"
    /\ chain.res.diag = "Time"
    /\ pc = "done"

\* The digit strings of C2: no sign, at least one digit, at most 20 bytes.
DigitString(t) ==
    /\ t.fmt = "int"
    /\ t.sign = ""
    /\ t.zeros + DigitCount(t.mag) >= 1

\* The rendering of the expander in the unit of k divisions by 1000.
RenderUnit(m, k, bld) ==
    CASE k = 0 -> Timestamp(m)
      [] k = 1 -> TimestampMillis(m)
      [] k = 2 -> TruncDivPow(TimestampNanos(m, bld).val, 1)
      [] OTHER -> TimestampNanos(m, bld).val

\* C2: for every digit string s of length at most 20 (a non-negative
\* integer) parse_timestamp succeeds, and after k divisions by 1000 the
\* rendering of the returned moment in the unit of k (seconds,
\* milliseconds, microseconds, nanoseconds for k = 0, 1, 2, 3) is the
\* integer s.
C2_RoundTrip ==
    (Chained /\ DigitString(chain.text) /\ TextLen(chain.text) <= 20) =>
       /\ chain.ts.res.status = "ok"
       /\ chain.ts.exp \div 3 \in 0..3 =>
             RenderUnit(chain.ts.res.moment, chain.ts.exp \div 3, build)
                = MkInt(FALSE, chain.text.mag)

\* 4294967 < t <= 4294967295
InSecondsWindow(mag) ==
    /\ CmpMag(<<967, 294, 4>>, mag) < 0
    /\ CmpMag(mag, U32Max.mag) <= 0

\* C3: for every t with 4294967 < t <= 4294967295 the inputs t, 1000*t,
\* 10^6*t and 10^9*t all give the moment of t whole seconds and no
\* sub-second part, so their UTC civil-time entry is the same.
C3_SameMomentAtEveryMagnitude ==
    \A j \in 0..3 :
       ( /\ Chained
         /\ DigitString(chain.text)
         /\ chain.text.zeros = 0
         /\ LowLimbs(chain.text.mag, j) = <<>>
         /\ InSecondsWindow(ShiftDown(chain.text.mag, j)) )
       => LET t == MkInt(FALSE, ShiftDown(chain.text.mag, j)) IN
          /\ chain.ts.res = Ok(Moment(t, 0))
          /\ chain.res = Ok(Moment(t, 0))
          /\ (pc = "done" /\ source = "arg")
                => /\ outcome = "ok"
                   /\ items[2].role = "utc"
                   /\ items[2].civ = CivilOfSecs(t)

\* 10^9 * 4294967295, the largest input of C3, has been expanded.
C3_Witness ==
    /\ pc = "done"
    /\ source = "arg"
    /\ chain.text = IntText("", 0, <<0, 0, 0, 295, 967, 294, 4>>)
    /\ chain.ts.exp = 9
    /\ chain.res.moment = Moment(U32Max, 0)
    /\ items[2].civ = <<2106, 2, 7, 6, 28, 15>>

\* C10: for every ts that parses as an i64 the demotion loop divides at
\* most three times (exp is 0, 3, 6 or 9), so 9 - exp does not underflow
\* and the power does not overflow; the loop ends with seconds <=
\* 4294967295 and the nanosecond field is in 0..999999999; a negative ts is
\* not divided and has a zero fraction.
C10_AtMostThreeDivisions ==
    ChainNumeric =>
       /\ chain.ts.exp \in {0, 3, 6, 9}
       /\ chain.ts.res.status # "abort"
       /\ LeInt(chain.ts.seconds, U32Max)
       /\ LeInt(IntZero, chain.ts.nanos)
       /\ LtInt(chain.ts.nanos, FromInt(NanosPerSec))
       /\ chain.ts.ts.neg => chain.ts.exp = 0 /\ chain.ts.nanos = IntZero

Roles(its) == [i \in 1..Len(its) |-> its[i].role]
NumericRoles == <<"local", "utc", "relative">>
EpochRoles == <<"seconds", "milliseconds", "microseconds", "nanoseconds">>
BlockRoles == EpochRoles \o <<"local", "utc">>

HasRead(site) == \E i \in DOMAIN reads : reads[i][1] = site
\* The tick of the reading taken at a site (the first tick when none was).
ReadTick(site) ==
    IF HasRead(site)
    THEN reads[CHOOSE i \in DOMAIN reads : reads[i][1] = site][2]
    ELSE 0

\* C4: run_workflow returns a failure if and only if the query is
\* non-empty and no sub-parser accepts it; then exactly one error entry is
\* emitted and no result entries are returned.  With an empty query and a
\* clipboard that is absent or does not parse the call succeeds and
\* returns exactly the current-time block.
C4_FailureIffQueryRejected ==
    pc = "done" =>
       /\ outcome = "err"
             <=> ( /\ ~IsEmpty(query)
                   /\ chain.text = query
                   /\ \A i \in DOMAIN chain.subs : chain.subs[i].status # "ok" )
       /\ outcome = "err" => emitted = <<ErrorItem>> /\ items = <<>>
       /\ ( /\ IsEmpty(query)
            /\ \/ clipboard = NoClip
               \/ chain.text = clipboard /\ chain.res.status # "ok" )
             => /\ outcome = "ok"
                /\ emitted = <<>>
                /\ Roles(items) = BlockRoles
                /\ items = to_output_none(Now(ReadTick("block")), offset, build).items

\* What a run on the query alone returns, given the clock readings taken.
QueryPrefix ==
    to_output_prefix(chain.res.moment, "arg", query, offset,
                     Now(ReadTick("relative")), build)
QueryBlock == to_output_none(Now(ReadTick("block")), offset, build)

\* C5: the clipboard is used only when the query is empty.  For a
\* non-empty query the clipboard is never parsed and the outcome (the
\* entries, or the failure) is that of the query alone, whatever the
\* clipboard holds; for an empty query and a clipboard that parses, the
\* leading entries are those of the clipboard's moment.
C5_ClipboardOnlyForEmptyQuery ==
    /\ ~IsEmpty(query) =>
          /\ clipParses = 0
          /\ chain.text \in {NoClip, query}
          /\ pc = "done" =>
                /\ chain = parse_datetime(query, offset, Now(ReadTick("today")), build)
                /\ outcome = "err" <=> chain.res.status = "err"
                /\ outcome = "err" => items = <<>> /\ emitted = <<ErrorItem>>
                /\ outcome = "ok" =>
                      /\ chain.res.status = "ok"
                      /\ items = QueryPrefix.items \o QueryBlock.items
                      /\ \A i \in 1..Len(QueryPrefix.items) :
                            items[i].desc \in {"timestamp", "Relative time", "Time since epoch"}
                /\ outcome = "abort" =>
                      \/ chain.res.status = "abort"
                      \/ QueryPrefix.status = "abort"
                      \/ QueryBlock.status = "abort"
    /\ (IsEmpty(query) /\ clipboard # NoClip) =>
          /\ clipParses <= 1
          /\ (chain.text = clipboard /\ chain.res.status = "ok" /\ items # <<>>) =>
                LET pre == to_output_prefix(chain.res.moment, "clip", clipboard, offset,
                                            Now(ReadTick("relative")), build).items
                IN  /\ chain = parse_datetime(clipboard, offset, Now(ReadTick("today")), build)
                    /\ Len(items) >= Len(pre)
                    /\ SubSeq(items, 1, Len(pre)) = pre
                    /\ \A i \in 1..Len(pre) :
                          items[i].desc \in {"timestamp from clipboard", "Relative time",
                                            "Time since epoch"}

\* The query 2022-09-10T10:00:00Z beside the clipboard 1970-01-01T00:00:00Z:
\* the first entry is 1662804000.
C5_Witness ==
    /\ pc = "done"
    /\ outcome = "ok"
    /\ query.lit = "2022-09-10T10:00:00Z"
    /\ clipboard = IsoEpoch
    /\ items[1].role = "seconds"
    /\ items[1].num = FromInt(1662804000)

\* C6: for every moment the chain returns, expansion completes; before the
\* appended block there are exactly the 3 entries local, UTC, relative when
\* the text parses as an integer and exactly the 4 entries seconds,
\* milliseconds, microseconds, nanoseconds otherwise; the block is the 6
\* entries of NoInput, without a relative entry and without a further
\* append.
C6_ExpansionCompletes ==
    (pc = "done" /\ Chained /\ chain.res.status = "ok") =>
       /\ outcome = "ok"
       /\ Roles(items) = (IF ParseI64(chain.text).ok THEN NumericRoles ELSE EpochRoles)
                            \o BlockRoles

\* C7 as stated: parse(s) fails with TooLong for every s longer than 22
\* characters, without attempting integer parsing.
C7_ParseFailsTooLong ==
    (Chained /\ TextLen(chain.text) > 22) =>
       /\ chain.res.status = "err"
       /\ chain.res.diag = "TooLong"
       /\ ~chain.ts.triedInt

\* C7 amended: for every s longer than 22 bytes the epoch-magnitude
\* parser parse_timestamp fails with TooLong without attempting integer
\* parsing; the chain goes on to the other five sub-parsers, so parse(s)
\* succeeds on a longer ISO-8601 or RFC-2822 string and otherwise fails
\* with the time-only diagnostic.
C7_EpochParserRejectsLong ==
    (Chained /\ TextLen(chain.text) > 22) =>
       /\ chain.ts.res = Err("TooLong")
       /\ chain.subs[1] = Err("TooLong")
       /\ ~chain.ts.triedInt
       /\ chain.text.fmt \in {"iso", "rfc"} => chain.res.status = "ok"
       /\ chain.text.fmt \notin {"iso", "rfc"}
             => chain.res.status = "err" /\ chain.res.diag = "Time"

\* A string of 23 digits whose value is an i64 was rejected unparsed.
C7_Witness ==
    /\ Chained
    /\ TextLen(chain.text) = 23
    /\ ParseI64(chain.text).ok
    /\ chain.subs[1].diag = "TooLong"
    /\ chain.res.diag = "Time"

\* The moment whose epoch renderings start at entry i: the parsed moment for
\* the leading entries of a textual input, else the clock's reading.
MomentAt(i) ==
    IF i = 1 /\ Chained /\ chain.res.status = "ok" /\ ~ParseI64(chain.text).ok
    THEN chain.res.moment
    ELSE Now(ReadTick("block"))

\* C8 as stated: the seconds, milliseconds and microseconds renderings are
\* the nanosecond count divided by 10^9, 10^6 and 10^3, each truncated
\* toward zero, pre-epoch moments with a sub-second part included.
C8_AllTruncate ==
    \A i \in 1..Len(items) :
       (items[i].role = "seconds" /\ FitsI64(ExactNanos(MomentAt(i)))) =>
          LET n == ExactNanos(MomentAt(i)) IN
          /\ items[i].num = TruncDivPow(n, 3)
          /\ items[i + 1].num = TruncDivPow(n, 2)
          /\ items[i + 2].num = TruncDivPow(n, 1)

\* C8 amended: the seconds and milliseconds renderings are the nanosecond
\* count divided by 10^9 and 10^6 rounded toward minus infinity (chrono's
\* timestamp and timestamp_millis); only the microseconds rendering is the
\* rendered nanoseconds divided by 1000 truncated toward zero.  The three
\* agree with truncation of the count when the moment is not before the
\* epoch or the division is exact.
C8_FloorExceptMicros ==
    \A i \in 1..Len(items) :
       items[i].role = "seconds" =>
          LET n == ExactNanos(MomentAt(i)) IN
          /\ items[i].num = FloorDivPow(n, 3)
          /\ items[i + 1].num = FloorDivPow(n, 2)
          /\ items[i + 2].num = TruncDivPow(items[i + 3].num, 1)
          /\ FitsI64(n) => items[i + 3].num = n
          /\ (FitsI64(n) /\ (~n.neg \/ LowLimbs(n.mag, 3) = <<>>)) =>
                /\ items[i].num = TruncDivPow(n, 3)
                /\ items[i + 1].num = TruncDivPow(n, 2)
                /\ items[i + 2].num = TruncDivPow(n, 1)

\* 1969-12-31T23:59:59.4995Z was rendered: -1 s, -501 ms, -500500 us.
C8_Witness ==
    /\ Len(items) >= 4
    /\ chain.res.moment = Moment(FromInt(-1), 499500000)
    /\ items[1].num = FromInt(-1)
    /\ items[2].num = FromInt(-501)
    /\ items[3].num = FromInt(-500500)
    /\ items[4].num = FromInt(-500500000)

\* C9 as stated: the current instant is read once in an invocation; the
\* relative entry, the appended block and the time-only parser's date use
\* the same snapshot.
C9_OneSnapshot ==
    \A i, j \in DOMAIN reads : reads[i][2] = reads[j][2]

\* C9 amended: the clock is read anew at each use: by the time-only
\* parser (Local::today), by the relative entry and by the appended block,
\* at most twice in a run; each of them shows the reading of its own step,
\* so the output changes when the clock advances between the steps, and two
\* expansions of the same (moment, kind) pair agree when their readings do.
C9_EachUseReadsTheClock ==
    /\ Len(reads) <= 2
    /\ \A i, j \in DOMAIN reads : i < j => reads[i][2] <= reads[j][2] /\ reads[i][1] # reads[j][1]
    /\ HasRead("today") <=> (Chained /\ chain.text.fmt = "time" /\ chain.res.status # "abort")
    /\ HasRead("today") =>
          chain.res = parse_time(chain.text, offset, Now(ReadTick("today")))
    /\ (pc = "done" /\ outcome = "ok") =>
          /\ HasRead("block")
          /\ SubSeq(items, Len(items) - 5, Len(items))
                = to_output_none(Now(ReadTick("block")), offset, build).items
          /\ ChainNumeric =>
                /\ HasRead("relative")
                /\ <<items[3]>> = to_relative_item(chain.res.moment,
                                                   Now(ReadTick("relative"))).items

\* A run whose relative entry and block come from different readings.
C9_Witness ==
    /\ pc = "done"
    /\ outcome = "ok"
    /\ HasRead("relative")
    /\ ReadTick("relative") < ReadTick("block")
    /\ items[3].role = "relative"
    /\ items[4].role = "seconds"
    /\ SubInt(ExactNanos(chain.res.moment), items[7].num) # items[3].num
    /\ SubInt(items[7].num, ExactNanos(chain.res.moment)) # items[3].num

====
